---------------------------- MODULE Spec2Model ----------------------------
(***************************************************************************)
(* Verification model of the dataset download / inspection scripts:        *)
(*   backend/download_datasets.py        (LMSYS, LoCoMo)                   *)
(*   backend/download_more_datasets.py   (Arena, WildChat, ShareGPT,       *)
(*                                        UltraChat)                       *)
(*   backend/download_final_datasets.py  (serialize_item + WildChat,       *)
(*                                        OpenAssistant, HH-RLHF)          *)
(*   backend/inspect_datasets.py         (inspect_dataset + its loop)      *)
(*                                                                         *)
(* Python values are tagged records: [t |-> tag, v |-> payload].  A dict   *)
(* is an ordered sequence of <<key, value>> pairs (Python dicts keep        *)
(* insertion order), a str is a TLA+ string, a datetime is its field       *)
(* tuple <<year, month, day, hour, minute, second, microsecond>>.          *)
(***************************************************************************)
EXTENDS Integers, Sequences, FiniteSets, TLC

VARIABLES
    \* --- one call chain of serialize_item -------------------------------
    obj,        \* the value under construction / handed to serialize_item
    out,        \* serialize_item(obj)
    out2,       \* serialize_item(out)
    npc,        \* "build" | "once" | "twice" | "idle"
    depth,      \* nesting depth of obj
    \* --- one run of a download script -----------------------------------
    script,     \* which script runs: "datasets" | "more" | "final" | "none"
    idx,        \* index of the dataset block being executed (1-based)
    dpc,        \* "load" | "stream" | "write" | "summary" | "done" |
                \* "crashed" | "idle"
    source,     \* records of the dataset returned by load_dataset
    pulled,     \* number of records the for-loop has pulled from the stream
    sample,     \* wildchat_sample
    handed,     \* what the last json.dump call of this block was given
    files,      \* block index -> [st |-> "none"] | [st |-> "partial"] |
                \*                [st |-> "ok", doc |-> <<records>>]
    log,        \* printed outcome lines, in order: <<block, "ok"|"fail">>
    attempted,  \* blocks whose load_dataset call was made
    failed,     \* blocks in which an exception was raised
    \* --- one run of inspect_datasets.py ---------------------------------
    jsonFiles,  \* sorted(datasets_dir.glob("*.json")): the files' contents
    fidx,       \* number of files the loop has gone through
    reports,    \* per file: what inspect_dataset printed or the error line
    ipc         \* "glob" | "loop" | "done" | "crashed" | "idle"

nvars == <<obj, out, out2, npc, depth>>
dvars == <<script, idx, dpc, source, pulled, sample, handed, files, log,
           attempted, failed>>
ivars == <<jsonFiles, fidx, reports, ipc>>
vars == <<nvars, dvars, ivars>>

-----------------------------------------------------------------------------
(* Bounds of the model *)

\* nesting depth up to which values are built with every constructor
MaxWide == 2
\* nesting depth up to which values are built at all
MaxDepth == 10
\* the sample cutoff of a download block (10000, and 1000 for LMSYS), scaled
Cutoff == 2
\* longest dataset a source returns
MaxSource == 4
\* most records of an inspected dataset file
MaxRecords == 6
\* most records of a dataset file whose conversations are measured
MaxConvRecords == 4
\* most turns of a conversation in an inspected record
MaxTurns == 4
\* most files in the datasets directory
MaxFiles == 3

-----------------------------------------------------------------------------
(* Constants of inspect_datasets.py *)

\* lang_counts.most_common(5)
TopLanguages == 5
\* first_item['conversation'][:3]
TurnsShown == 3
\* first_item['messages'][:2]
MessagesShown == 2
\* content[:100]
ContentCut == 100
\* first_item['chosen'][:150]
ChosenCut == 150
\* json.dumps(first_item, indent=2)[:300]
StructureCut == 300

-----------------------------------------------------------------------------
(* Python values *)

Str(s) == [t |-> "str", v |-> s]
Num(n) == [t |-> "num", v |-> n]
Bool(b) == [t |-> "bool", v |-> b]
Null == [t |-> "null"]
Datetime(tup) == [t |-> "datetime", v |-> tup]
List(s) == [t |-> "list", v |-> s]
Dict(pairs) == [t |-> "dict", v |-> pairs]

Min(a, b) == IF a < b THEN a ELSE b
Max(a, b) == IF a > b THEN a ELSE b

\* "%04d-%02d-%02dT%02d:%02d:%02d", then ".%06d" when microsecond # 0
Zeros(k) == SubSeq("000000", 1, k)
PadStr(n, w) == Zeros(Max(0, w - Len(ToString(n)))) \o ToString(n)

\* datetime.isoformat() of a naive datetime
isoformat(d) ==
    PadStr(d[1], 4) \o "-" \o PadStr(d[2], 2) \o "-" \o PadStr(d[3], 2)
      \o "T" \o PadStr(d[4], 2) \o ":" \o PadStr(d[5], 2) \o ":"
      \o PadStr(d[6], 2)
      \o (IF d[7] # 0 THEN "." \o PadStr(d[7], 6) ELSE "")

RECURSIVE serialize_item_quoting(_)
\* a serialize_item whose fall-through branch re-encodes strings (repr)
serialize_item_quoting(o) ==
    IF o.t = "datetime" THEN Str(isoformat(o.v))
    ELSE IF o.t = "dict" THEN
        Dict([i \in 1..Len(o.v) |->
                 <<o.v[i][1], serialize_item_quoting(o.v[i][2])>>])
    ELSE IF o.t = "list" THEN
        List([i \in 1..Len(o.v) |-> serialize_item_quoting(o.v[i])])
    ELSE IF o.t = "str" THEN Str("'" \o o.v \o "'")
    ELSE o

RECURSIVE serialize_item_shallow(_)
\* a serialize_item that forgets to recurse into lists
serialize_item_shallow(o) ==
    IF o.t = "datetime" THEN Str(isoformat(o.v))
    ELSE IF o.t = "dict" THEN
        Dict([i \in 1..Len(o.v) |->
                 <<o.v[i][1], serialize_item_shallow(o.v[i][2])>>])
    ELSE o

RECURSIVE serialize_item(_)
\* download_final_datasets.py: serialize_item
serialize_item(o) ==
    IF o.t = "datetime" THEN Str(isoformat(o.v))
    ELSE IF o.t = "dict" THEN
        Dict([i \in 1..Len(o.v) |-> <<o.v[i][1], serialize_item(o.v[i][2])>>])
    ELSE IF o.t = "list" THEN
        List([i \in 1..Len(o.v) |-> serialize_item(o.v[i])])
    ELSE o

RECURSIVE IsJSONNative(_)
\* what json.dump accepts without a default= hook: no datetime anywhere
IsJSONNative(o) ==
    CASE o.t = "datetime" -> FALSE
      [] o.t = "dict" -> \A i \in 1..Len(o.v) : IsJSONNative(o.v[i][2])
      [] o.t = "list" -> \A i \in 1..Len(o.v) : IsJSONNative(o.v[i])
      [] OTHER -> TRUE

-----------------------------------------------------------------------------
(* The other two programs at rest, for a specification of one program *)

NormalizerIdle ==
    /\ obj = Null /\ out = Null /\ out2 = Null /\ npc = "idle" /\ depth = 0

DownloadIdle ==
    /\ script = "none" /\ idx = 0 /\ dpc = "idle" /\ source = <<>>
    /\ pulled = 0 /\ sample = <<>> /\ handed = <<>> /\ files = <<>>
    /\ log = <<>> /\ attempted = {} /\ failed = {}

InspectIdle ==
    /\ jsonFiles = <<>> /\ fidx = 0 /\ reports = <<>> /\ ipc = "idle"

-----------------------------------------------------------------------------
(* serialize_item applied to values of every shape *)

\* the fixed timestamp 2024-01-15T10:30:00 and one with microseconds
DtA == Datetime(<<2024, 1, 15, 10, 30, 0, 0>>)
DtB == Datetime(<<1999, 12, 31, 23, 59, 59, 1500>>)

Leaves == {DtA, DtB, Str("x"), Str("2024-01-15T10:30:00"), Num(1),
           Bool(TRUE), Null, List(<<>>), Dict(<<>>)}
\* the siblings put beside a nested value
Siblings == {DtA, Str("x")}

NormInit ==
    /\ obj \in Leaves /\ depth = 0
    /\ out = Null /\ out2 = Null /\ npc = "build"
    /\ DownloadIdle /\ InspectIdle

\* nest obj one level deeper, with every constructor
BuildWide ==
    /\ npc = "build" /\ depth < MaxWide
    /\ \/ obj' = List(<<obj>>)
       \/ \E s \in Siblings : obj' = List(<<obj, s>>)
       \/ \E s \in Siblings : obj' = List(<<s, obj>>)
       \/ obj' = Dict(<<<<"a", obj>>>>)
       \/ \E s \in Siblings : obj' = Dict(<<<<"a", obj>>, <<"b", s>>>>)
    /\ depth' = depth + 1
    /\ UNCHANGED <<out, out2, npc, dvars, ivars>>

\* nest obj one level deeper, lists and mappings alternating
BuildDeep ==
    /\ npc = "build" /\ depth >= MaxWide /\ depth < MaxDepth
    /\ obj' = IF obj.t = "list" THEN Dict(<<<<"a", obj>>>>) ELSE List(<<obj>>)
    /\ depth' = depth + 1
    /\ UNCHANGED <<out, out2, npc, dvars, ivars>>

\* out = serialize_item(obj)
Normalize ==
    /\ npc = "build"
    /\ out' = serialize_item(obj)
    /\ npc' = "once"
    /\ UNCHANGED <<obj, out2, depth, dvars, ivars>>

\* out2 = serialize_item(serialize_item(obj))
NormalizeAgain ==
    /\ npc = "once"
    /\ out2' = serialize_item(out)
    /\ npc' = "twice"
    /\ UNCHANGED <<obj, out, depth, dvars, ivars>>

NormNext == BuildWide \/ BuildDeep \/ Normalize \/ NormalizeAgain

SpecNorm == NormInit /\ [][NormNext]_vars

\* C1: normalization is idempotent: serialize_item(serialize_item(x)) equals
\* serialize_item(x) for every x built from mappings, lists, strings,
\* numbers, booleans, null and timestamps.
C1_Idempotent == npc = "twice" => out2 = out

RECURSIVE HasDatetime(_)
HasDatetime(o) ==
    CASE o.t = "datetime" -> TRUE
      [] o.t = "dict" -> \E i \in 1..Len(o.v) : HasDatetime(o.v[i][2])
      [] o.t = "list" -> \E i \in 1..Len(o.v) : HasDatetime(o.v[i])
      [] OTHER -> FALSE

\* a value with a timestamp and a string inside was normalized twice
C1_Witness ==
    /\ npc = "twice" /\ depth >= 2 /\ HasDatetime(obj) /\ out # obj
    /\ obj.t = "list" /\ Len(obj.v) = 2 /\ obj.v[2] = Str("x")

\* C2: for any input nested to depth <= 10, serialize_item returns a value
\* made of JSON-native types only: no timestamp remains at any position,
\* inside a mapping or inside a sequence.
C2_OnlyNative == npc \in {"once", "twice"} => IsJSONNative(out)

\* a timestamp at the bottom of a depth-10 nest, below a list, was normalized
C2_Witness ==
    /\ npc = "once" /\ depth = MaxDepth /\ HasDatetime(obj)
    /\ obj.t \in {"list", "dict"} /\ ~HasDatetime(out)

-----------------------------------------------------------------------------
(* The download scripts *)

\* the try-blocks of each script, in order: how the block samples the
\* dataset and whether it passes each record through serialize_item
Blocks(s) ==
    CASE s = "datasets" ->
           << [name |-> "lmsys", mode |-> "select", normalizes |-> FALSE],
              [name |-> "locomo", mode |-> "all", normalizes |-> FALSE] >>
      [] s = "more" ->
           << [name |-> "arena", mode |-> "all", normalizes |-> FALSE],
              [name |-> "wildchat", mode |-> "stream", normalizes |-> FALSE],
              [name |-> "sharegpt", mode |-> "select", normalizes |-> FALSE],
              [name |-> "ultrachat", mode |-> "select", normalizes |-> FALSE] >>
      [] s = "final" ->
           << [name |-> "wildchat", mode |-> "stream", normalizes |-> TRUE],
              [name |-> "oasst", mode |-> "all", normalizes |-> TRUE],
              [name |-> "hhrlhf", mode |-> "select", normalizes |-> TRUE] >>

Scripts == {"datasets", "more", "final"}
NBlocks(s) == Len(Blocks(s))
Block == Blocks(script)[idx]

\* record number i of a dataset: plain, with a top-level timestamp (as
\* WildChat's), or with a timestamp inside its conversation turns
Rec(i, kind) ==
    CASE kind = "plain" -> Dict(<< <<"id", Num(i)>> >>)
      [] kind = "ts" -> Dict(<< <<"id", Num(i)>>, <<"timestamp", DtA>> >>)
      [] kind = "turn_ts" ->
           Dict(<< <<"id", Num(i)>>,
                   <<"conversation",
                     List(<< Dict(<< <<"timestamp", DtB>> >>) >>)>> >>)

\* the datasets load_dataset may return: any length, at most one record
\* carrying a timestamp
Sources ==
    { [i \in 1..n |-> Rec(i, "plain")] : n \in 0..MaxSource }
    \cup { [i \in 1..n |-> Rec(i, IF i = at THEN kind ELSE "plain")] :
             n \in 1..MaxSource, at \in 1..MaxSource, kind \in {"ts", "turn_ts"} }

\* dataset.select(range(min(N, len(dataset)))) dropping its first record
select_from_second(ds, n) == SubSeq(ds, 2, Min(n, Len(ds)))

\* dataset.select(range(min(N, len(dataset))))
select(ds, n) == SubSeq(ds, 1, Min(n, Len(ds)))

\* the records a block hands to json.dump, given the records it sampled
Converted(b, recs) ==
    IF b.normalizes THEN [k \in 1..Len(recs) |-> serialize_item(recs[k])]
    ELSE recs

\* json.dump(records, f): the document, or TypeError ("Object of type
\* datetime is not JSON serializable") leaving a truncated file
json_dump(recs) ==
    IF \A k \in 1..Len(recs) : IsJSONNative(recs[k])
    THEN [st |-> "ok", doc |-> recs]
    ELSE [st |-> "partial"]

\* where the script goes on after a try-block
AfterBlock(s, i) == IF i = NBlocks(s) THEN "summary" ELSE "load"

\* an exception that no handler catches ends the script
AfterExceptUncaught(s, i) == "crashed"

\* `except Exception as e: print(...)`: the script goes on below the block
AfterExcept(s, i) == AfterBlock(s, i)

DownloadInit ==
    /\ script \in Scripts
    /\ idx = 1 /\ dpc = "load"
    /\ source = <<>> /\ pulled = 0 /\ sample = <<>> /\ handed = <<>>
    /\ files = [i \in 1..NBlocks(script) |-> [st |-> "none"]]
    /\ log = <<>> /\ attempted = {} /\ failed = {}
    /\ NormalizerIdle /\ InspectIdle

\* the block's exception handler: print the failure line, go on
Except ==
    /\ failed' = failed \cup {idx}
    /\ log' = Append(log, <<idx, "fail">>)
    /\ dpc' = AfterExcept(script, idx)
    /\ idx' = idx + 1

\* the block's success lines
Succeed ==
    /\ failed' = failed
    /\ log' = Append(log, <<idx, "ok">>)
    /\ dpc' = AfterBlock(script, idx)
    /\ idx' = idx + 1

\* open(path, 'w') and json.dump(recs, f), then the prints or the handler
Write(recs) ==
    /\ handed' = recs
    /\ files' = [files EXCEPT ![idx] = json_dump(recs)]
    /\ IF json_dump(recs).st = "ok" THEN Succeed ELSE Except

\* load_dataset raises (source unreachable, bad identifier, auth)
LoadFail ==
    /\ dpc = "load"
    /\ attempted' = attempted \cup {idx}
    /\ source' = <<>> /\ pulled' = 0 /\ sample' = <<>> /\ handed' = <<>>
    /\ Except
    /\ UNCHANGED <<script, files, nvars, ivars>>

\* a block that writes the whole dataset
LoadAll ==
    /\ dpc = "load" /\ Block.mode = "all"
    /\ attempted' = attempted \cup {idx}
    /\ \E src \in Sources :
         /\ source' = src
         /\ sample' = src
         /\ Write(Converted(Block, src))
    /\ pulled' = 0
    /\ UNCHANGED <<script, nvars, ivars>>

\* a block that writes dataset.select(range(min(N, len(dataset))))
LoadSelect ==
    /\ dpc = "load" /\ Block.mode = "select"
    /\ attempted' = attempted \cup {idx}
    /\ \E src \in Sources :
         /\ source' = src
         /\ sample' = select(src, Cutoff)
         /\ Write(Converted(Block, select(src, Cutoff)))
    /\ pulled' = 0
    /\ UNCHANGED <<script, nvars, ivars>>

\* load_dataset(..., streaming=True): nothing is read yet
LoadStream ==
    /\ dpc = "load" /\ Block.mode = "stream"
    /\ attempted' = attempted \cup {idx}
    /\ source' \in Sources
    /\ pulled' = 0 /\ sample' = <<>> /\ handed' = <<>>
    /\ dpc' = "stream"
    /\ UNCHANGED <<script, idx, files, log, failed, nvars, ivars>>

\* `if i >= 10000: break`
BreaksAt(i) == i >= Cutoff

\* one iteration of `for i, item in enumerate(wildchat_dataset)`: the
\* iterator is asked for the next record, then i is tested, then the record
\* is appended
StreamStep ==
    /\ dpc = "stream"
    /\ IF pulled = Len(source)
       THEN \* StopIteration: the loop ends
            /\ dpc' = "write"
            /\ UNCHANGED <<pulled, sample>>
       ELSE /\ pulled' = pulled + 1
            /\ IF BreaksAt(pulled)
               THEN dpc' = "write" /\ sample' = sample
               ELSE /\ dpc' = "stream"
                    /\ sample' = Append(sample,
                                   Converted(Block, <<source[pulled + 1]>>)[1])
    /\ UNCHANGED <<script, idx, source, handed, files, log, attempted,
                   failed, nvars, ivars>>

\* the stream raises while a record is fetched
StreamFail ==
    /\ dpc = "stream" /\ pulled < Len(source)
    /\ Except
    /\ UNCHANGED <<script, source, pulled, sample, handed, files, attempted,
                   nvars, ivars>>

\* json.dump(wildchat_sample, f) after the loop
WriteSample ==
    /\ dpc = "write"
    /\ Write(sample)
    /\ UNCHANGED <<script, source, pulled, sample, attempted, nvars, ivars>>

\* the summary section printed below the last block
Summary ==
    /\ dpc = "summary"
    /\ log' = Append(log, <<0, "summary">>)
    /\ dpc' = "done"
    /\ UNCHANGED <<script, idx, source, pulled, sample, handed, files,
                   attempted, failed, nvars, ivars>>

DownloadNext ==
    \/ LoadFail \/ LoadAll \/ LoadSelect \/ LoadStream
    \/ StreamStep \/ StreamFail \/ WriteSample \/ Summary

SpecDownload == DownloadInit /\ [][DownloadNext]_vars

\* the script is one sequential process: it always takes its next step
SpecDownloadFair == SpecDownload /\ WF_vars(DownloadNext)

\* the block that has just been left, while the script stands between blocks
Left == idx - 1
BetweenBlocks == dpc \in {"load", "summary"} /\ idx > 1

\* C3: in every download script, whichever datasets fail, each failing
\* dataset prints a failure line, every later dataset is still attempted,
\* and the run reaches and prints the final summary section.
C3_FailuresIsolated ==
    /\ [](\A i \in failed : \E k \in 1..Len(log) : log[k] = <<i, "fail">>)
    /\ [](BetweenBlocks => attempted = 1..Left)
    /\ <>(/\ dpc = "done"
          /\ attempted = 1..NBlocks(script)
          /\ log[Len(log)] = <<0, "summary">>)

\* the first dataset failed, the last one was written, the summary printed
C3_Witness ==
    /\ dpc = "done" /\ 1 \in failed
    /\ files[NBlocks(script)].st = "ok"
    /\ log[1] = <<1, "fail">> /\ log[Len(log)] = <<0, "summary">>

\* C4: a streamed download with sample cutoff N never pulls a record beyond
\* the Nth from the source, whatever the length of the source.
C4_ConsumesAtMostCutoff == pulled <= Cutoff

\* C5: in every download script, each record written to a dataset's JSON
\* file has first been passed through the Normalizer (serialize_item).
C5_WrittenNormalized ==
    \A k \in 1..Len(handed) : handed[k] = serialize_item(source[k])

\* C10: for a sampled dataset with cutoff N whose retrieval and write
\* succeed, the file holds the first min(N, L) records of the source in
\* source order, none skipped, duplicated or reordered, in the streamed loop
\* and in the select(range(min(N, L))) path alike (each record as the block
\* converts it: through serialize_item in download_final_datasets.py).
C10_FirstRecordsInOrder ==
    (/\ BetweenBlocks
     /\ Blocks(script)[Left].mode \in {"stream", "select"}
     /\ log[Len(log)] = <<Left, "ok">>)
    => /\ files[Left].st = "ok"
       /\ Len(files[Left].doc) = Min(Cutoff, Len(source))
       /\ \A k \in 1..Len(files[Left].doc) :
            files[Left].doc[k] =
                IF Blocks(script)[Left].normalizes
                THEN serialize_item(source[k]) ELSE source[k]

\* a streamed source longer than the cutoff, one record with a timestamp,
\* was sampled and written
C10_Witness ==
    /\ BetweenBlocks /\ Blocks(script)[Left].mode = "stream"
    /\ log[Len(log)] = <<Left, "ok">>
    /\ Len(source) > Cutoff /\ Len(files[Left].doc) = Cutoff
    /\ \E k \in 1..Cutoff : HasDatetime(source[k])

-----------------------------------------------------------------------------
(* Python operations used by inspect_datasets.py *)

\* key in d
Has(d, k) == \E i \in 1..Len(d.v) : d.v[i][1] = k
\* d[key]
Lookup(d, k) == d.v[CHOOSE i \in 1..Len(d.v) : d.v[i][1] = k][2]
\* d.get(key, default)
Get(d, k, default) == IF Has(d, k) THEN Lookup(d, k) ELSE default
\* list(d.keys())
Keys(d) == [i \in 1..Len(d.v) |-> d.v[i][1]]
\* len(x) is defined
Sized(x) == x.t \in {"list", "dict", "str"}
\* len(x)
PyLen(x) == Len(x.v)
\* x[:n] is defined
Sliceable(x) == x.t \in {"list", "str"}
\* x[:n]
Slice(x, n) == [x EXCEPT !.v = SubSeq(x.v, 1, Min(n, Len(x.v)))]
\* bool(x)
Truthy(x) ==
    CASE x.t = "null" -> FALSE
      [] x.t = "bool" -> x.v
      [] x.t = "num" -> x.v # 0
      [] OTHER -> Len(x.v) > 0
\* hash(x) is defined
Hashable(x) == x.t \notin {"list", "dict"}

\* the character at position i of a string
CharAt(s, i) == SubSeq(s, i, i)

\* n / d rounded to a whole number, halves to the even neighbour: what
\* f"{x:.1f}" prints, in tenths, for x = n / (10 d).  A half is an exact
\* binary fraction (a multiple of 1/4) for every d below 16, so the float
\* division does not move it.
RoundHalfEven(n, d) ==
    LET q == n \div d
        r == n % d
    IN  IF 2 * r < d THEN q
        ELSE IF 2 * r > d THEN q + 1
        ELSE IF q % 2 = 0 THEN q ELSE q + 1

RECURSIVE Spaces(_)
Spaces(n) == IF n = 0 THEN "" ELSE " " \o Spaces(n - 1)

RECURSIVE EscapeRange(_, _, _)
\* json's string escaping of the characters lo..hi of s
EscapeRange(s, lo, hi) ==
    IF lo > hi THEN ""
    ELSE IF lo = hi
    THEN CASE CharAt(s, lo) = "\"" -> "\\\""
           [] CharAt(s, lo) = "\\" -> "\\\\"
           [] CharAt(s, lo) = "\n" -> "\\n"
           [] OTHER -> CharAt(s, lo)
    ELSE EscapeRange(s, lo, (lo + hi) \div 2)
           \o EscapeRange(s, (lo + hi) \div 2 + 1, hi)

\* json.dumps of a str
DumpStr(s) == "\"" \o EscapeRange(s, 1, Len(s)) \o "\""

RECURSIVE Dumps(_, _)
RECURSIVE DumpItems(_, _, _)
\* json.dumps(x, indent=2), x standing at nesting level lvl
Dumps(x, lvl) ==
    CASE x.t = "str" -> DumpStr(x.v)
      [] x.t = "num" -> ToString(x.v)
      [] x.t = "bool" -> IF x.v THEN "true" ELSE "false"
      [] x.t = "null" -> "null"
      [] x.t = "list" ->
           IF Len(x.v) = 0 THEN "[]"
           ELSE "[\n" \o DumpItems(x, 1, lvl + 1)
                  \o "\n" \o Spaces(2 * lvl) \o "]"
      [] x.t = "dict" ->
           IF Len(x.v) = 0 THEN "{}"
           ELSE "{\n" \o DumpItems(x, 1, lvl + 1)
                  \o "\n" \o Spaces(2 * lvl) \o "}"

\* the items of container x from the i-th on, one per line
DumpItems(x, i, lvl) ==
    Spaces(2 * lvl)
      \o (IF x.t = "dict"
          THEN DumpStr(x.v[i][1]) \o ": " \o Dumps(x.v[i][2], lvl)
          ELSE Dumps(x.v[i], lvl))
      \o (IF i = Len(x.v) THEN "" ELSE ",\n" \o DumpItems(x, i + 1, lvl))

-----------------------------------------------------------------------------
(* inspect_dataset *)

RECURSIVE SeqSum(_)
SeqSum(s) == IF s = <<>> THEN 0 ELSE Head(s) + SeqSum(Tail(s))
RECURSIVE SeqMin(_)
SeqMin(s) == IF Len(s) = 1 THEN s[1] ELSE Min(Head(s), SeqMin(Tail(s)))
RECURSIVE SeqMax(_)
SeqMax(s) == IF Len(s) = 1 THEN s[1] ELSE Max(Head(s), SeqMax(Tail(s)))

\* the value whose len() a record contributes
ConvOf(item) == Get(item, "conversation", List(<<>>))

\* lengths taken only over the records that have the field
LengthsOfPresent(data) ==
    LET withField == SelectSeq(data.v, LAMBDA item : Has(item, "conversation"))
    IN  [i \in 1..Len(withField) |-> PyLen(ConvOf(withField[i]))]

\* lengths = [len(item.get('conversation', [])) for item in data]
Lengths(data) == [i \in 1..Len(data.v) |-> PyLen(ConvOf(data.v[i]))]

\* the "Conversation turn statistics" section
StatsStep(data, first) ==
    IF ~Has(first, "conversation") THEN [err |-> FALSE, present |-> FALSE]
    ELSE IF \E i \in 1..Len(data.v) :
                data.v[i].t # "dict" \/ ~Sized(ConvOf(data.v[i]))
    THEN [err |-> TRUE]
    ELSE [err |-> FALSE, present |-> TRUE,
          min |-> SeqMin(Lengths(data)),
          max |-> SeqMax(Lengths(data)),
          avg10 |-> RoundHalfEven(10 * SeqSum(Lengths(data)),
                                  Len(Lengths(data)))]

\* languages = [item.get('language') for item in data if item.get('language')]
Languages(data) ==
    LET all == [i \in 1..Len(data.v) |-> Get(data.v[i], "language", Null)]
    IN  SelectSeq(all, Truthy)

\* Counter: one more occurrence of x; a new key goes last
CountOne(counter, x) ==
    IF \E i \in 1..Len(counter) : counter[i][1] = x
    THEN [i \in 1..Len(counter) |->
            IF counter[i][1] = x THEN <<x, counter[i][2] + 1>> ELSE counter[i]]
    ELSE Append(counter, <<x, 1>>)

RECURSIVE CounterFrom(_, _)
CounterFrom(counter, xs) ==
    IF xs = <<>> THEN counter
    ELSE CounterFrom(CountOne(counter, Head(xs)), Tail(xs))

\* Counter(languages): <<value, count>> in first-encountered order
Counter(xs) == CounterFrom(<<>>, xs)

\* a sort that puts an item ahead of the equal counts met before it
PlaceUnstable(sorted, item) ==
    LET ahead == Cardinality({i \in 1..Len(sorted) : sorted[i][2] > item[2]})
    IN  SubSeq(sorted, 1, ahead) \o <<item>>
          \o SubSeq(sorted, ahead + 1, Len(sorted))

\* sorted(..., key=itemgetter(1), reverse=True) is stable: an item goes
\* behind every item, met before it, whose count is at least as large
Place(sorted, item) ==
    LET ahead == Cardinality({i \in 1..Len(sorted) : sorted[i][2] >= item[2]})
    IN  SubSeq(sorted, 1, ahead) \o <<item>>
          \o SubSeq(sorted, ahead + 1, Len(sorted))

RECURSIVE SortDesc(_, _)
SortDesc(sorted, items) ==
    IF items = <<>> THEN sorted
    ELSE SortDesc(Place(sorted, Head(items)), Tail(items))

\* Counter.most_common(n)
most_common(counter, n) ==
    SubSeq(SortDesc(<<>>, counter), 1, Min(n, Len(counter)))

\* the "Top 5 languages" section: value, count, percentage in tenths
LangStep(data, first) ==
    IF ~Has(first, "language") THEN [err |-> FALSE, present |-> FALSE]
    ELSE IF \E i \in 1..Len(data.v) : data.v[i].t # "dict"
    THEN [err |-> TRUE]
    ELSE IF \E i \in 1..Len(Languages(data)) : ~Hashable(Languages(data)[i])
    THEN [err |-> TRUE]
    ELSE LET top == most_common(Counter(Languages(data)), TopLanguages)
         IN  [err |-> FALSE, present |-> TRUE,
              rows |-> [i \in 1..Len(top) |->
                          [lang |-> top[i][1], count |-> top[i][2],
                           pct10 |-> RoundHalfEven(1000 * top[i][2],
                                                   Len(data.v))]]]

\* turn.get('role', turn.get('speaker_role', 'unknown'))
TurnRole(turn) == Get(turn, "role", Get(turn, "speaker_role", Str("unknown")))
\* turn.get('content', turn.get('utterance', ''))
TurnContent(turn) == Get(turn, "content", Get(turn, "utterance", Str("")))
\* msg.get('role', 'unknown'), msg.get('content', '')
MsgRole(msg) == Get(msg, "role", Str("unknown"))
MsgContent(msg) == Get(msg, "content", Str(""))

\* the lines printed for the first n elements of a turn list
TurnLines(elems, n, kind) ==
    LET shown == Slice(elems, n).v
        role(e) == IF kind = "conversation" THEN TurnRole(e) ELSE MsgRole(e)
        content(e) == IF kind = "conversation" THEN TurnContent(e)
                      ELSE MsgContent(e)
    IN  IF ~Sliceable(elems) THEN [err |-> TRUE]
        ELSE IF elems.t = "str"
        THEN \* a character has no .get
             IF Len(shown) = 0 THEN [err |-> FALSE, kind |-> kind,
                                     lines |-> <<>>]
             ELSE [err |-> TRUE]
        ELSE IF \E i \in 1..Len(shown) :
                   shown[i].t # "dict" \/ ~Sliceable(content(shown[i]))
        THEN [err |-> TRUE]
        ELSE [err |-> FALSE, kind |-> kind,
              lines |-> [i \in 1..Len(shown) |->
                           [label |-> role(shown[i]),
                            text |-> Slice(content(shown[i]), ContentCut),
                            tail |-> "..."]]]

\* a priority that looks at `messages` before `conversation`
PreviewKindMessagesFirst(first) ==
    IF Has(first, "messages") THEN "messages"
    ELSE IF Has(first, "conversation") THEN "conversation"
    ELSE IF Has(first, "chosen") THEN "chosen"
    ELSE "structure"

\* the if / elif / elif / else of the example section
PreviewKind(first) ==
    IF Has(first, "conversation") THEN "conversation"
    ELSE IF Has(first, "messages") THEN "messages"
    ELSE IF Has(first, "chosen") THEN "chosen"
    ELSE "structure"

\* the "Example conversation" section
PreviewStep(first) ==
    CASE PreviewKind(first) = "conversation" ->
           TurnLines(Lookup(first, "conversation"), TurnsShown, "conversation")
      [] PreviewKind(first) = "messages" ->
           TurnLines(Lookup(first, "messages"), MessagesShown, "messages")
      [] PreviewKind(first) = "chosen" ->
           IF ~Sliceable(Lookup(first, "chosen")) THEN [err |-> TRUE]
           ELSE [err |-> FALSE, kind |-> "chosen",
                 lines |-> << [label |-> Str("chosen"),
                               text |-> Slice(Lookup(first, "chosen"),
                                              ChosenCut),
                               tail |-> "..."] >>]
      [] OTHER ->
           [err |-> FALSE, kind |-> "structure",
            lines |-> << [label |-> Str("Structure"),
                          text |-> Slice(Str(Dumps(first, 0)), StructureCut),
                          tail |-> "..."] >>]

\* a file of the datasets directory
Missing == [kind |-> "missing"]
Malformed == [kind |-> "malformed"]
JsonFile(data) == [kind |-> "json", data |-> data]

\* a section that was not printed
NoSection == [err |-> FALSE, present |-> FALSE]
NoPreview == [err |-> FALSE, kind |-> "none", lines |-> <<>>]

\* what inspect_dataset printed, and the stage that raised ("" when none)
Printed(stage, total, fields, stats, langs, preview) ==
    [err |-> stage # "", stage |-> stage, total |-> total, fields |-> fields,
     stats |-> stats, langs |-> langs, preview |-> preview]

\* inspect_dataset(file_path)
inspect_dataset(file) ==
    IF file.kind # "json"
    THEN Printed("load", -1, <<>>, NoSection, NoSection, NoPreview)
    ELSE IF ~Sized(file.data)
    THEN Printed("total", -1, <<>>, NoSection, NoSection, NoPreview)
    ELSE IF PyLen(file.data) = 0
    THEN \* "Empty dataset!", return
         Printed("", 0, <<>>, NoSection, NoSection, NoPreview)
    ELSE IF file.data.t # "list"
    THEN Printed("first_item", PyLen(file.data), <<>>, NoSection, NoSection,
                 NoPreview)
    ELSE IF file.data.v[1].t # "dict"
    THEN Printed("fields", PyLen(file.data), <<>>, NoSection, NoSection,
                 NoPreview)
    ELSE LET data == file.data
             first == data.v[1]
             total == PyLen(data)
             stats == StatsStep(data, first)
             langs == LangStep(data, first)
             preview == PreviewStep(first)
         IN  IF stats.err
             THEN Printed("statistics", total, Keys(first), NoSection,
                          NoSection, NoPreview)
             ELSE IF langs.err
             THEN Printed("languages", total, Keys(first), stats, NoSection,
                          NoPreview)
             ELSE IF preview.err
             THEN Printed("example", total, Keys(first), stats, langs,
                          NoPreview)
             ELSE Printed("", total, Keys(first), stats, langs, preview)

-----------------------------------------------------------------------------
(* The dataset files the inspection is run on *)

\* --- files for the language table ---------------------------------------
LangNames == <<"English", "Spanish", "French", "German", "Chinese",
               "Russian", "Arabic", "Hindi">>

\* a record by its language code: 0 no `language` key, -1 the empty string,
\* -2 null, k > 0 the k-th language name
LangRecord(c) ==
    CASE c = 0 -> Dict(<< <<"model", Str("m")>> >>)
      [] c = -1 -> Dict(<< <<"language", Str("")>> >>)
      [] c = -2 -> Dict(<< <<"language", Null>> >>)
      [] OTHER -> Dict(<< <<"language", Str(LangNames[c])>> >>)

\* the codes record n+1 may take after the records s: a language seen
\* before, the next language not seen yet, or none (languages are opaque
\* to the code, so which name comes first does not matter)
NextCodes(codes) ==
    {0, -1, -2} \cup
    1..Min(Len(LangNames),
           1 + Cardinality({codes[i] : i \in 1..Len(codes)} \ {0, -1, -2}))

RECURSIVE LangCodes(_)
LangCodes(n) ==
    IF n = 0 THEN {<<>>}
    ELSE UNION { {Append(codes, c) : c \in NextCodes(codes)} :
                 codes \in LangCodes(n - 1) }

\* the datasets of at most max records
LangDatasets(max) ==
    { List([i \in 1..Len(codes) |-> LangRecord(codes[i])]) :
        codes \in UNION {LangCodes(n) : n \in 1..max} }

\* --- files for the conversation statistics ------------------------------
RECURSIVE TextRange(_, _, _)
TextRange(lo, hi, quoted) ==
    IF lo > hi THEN ""
    ELSE IF lo = hi
    THEN IF quoted /\ lo % 7 = 0 THEN "\"" ELSE ToString(lo % 10)
    ELSE TextRange(lo, (lo + hi) \div 2, quoted)
           \o TextRange((lo + hi) \div 2 + 1, hi, quoted)

\* a string of n characters, the digits of their positions, with a double
\* quote at every seventh position when quoted
Text(n, quoted) == TextRange(1, n, quoted)

Turn(k) == Dict(<< <<"role", Str("user")>>, <<"content", Str(ToString(k))>> >>)
Conversation(n) == List([k \in 1..n |-> Turn(k)])

\* a record with a conversation of some length, with a `conversation` that
\* is a string, with one that is null, or without the key
ConvRecords(maxTurns) ==
    { Dict(<< <<"conversation", Conversation(n)>> >>) : n \in 0..maxTurns }
    \cup { Dict(<< <<"conversation", Str("hi")>> >>),
           Dict(<< <<"conversation", Null>> >>),
           Dict(<< <<"model", Str("m")>> >>) }

ConvDatasets(max, maxTurns) ==
    { List(recs) : recs \in UNION { [1..n -> ConvRecords(maxTurns)] :
                                     n \in 1..max } }

\* --- first records for the example section ------------------------------
CutLengths(cut) == {0, cut - 1, cut, cut + 1}

\* a turn whose role and content sit under the given keys ("none": absent,
\* "both": under either key, with different values)
ShapedTurn(k, roleKey, contentKey, len) ==
    Dict( (CASE roleKey = "none" -> <<>>
             [] roleKey = "both" -> << <<"speaker_role", Str("sp")>>,
                                       <<"role", Str("user")>> >>
             [] OTHER -> << <<roleKey, Str("user")>> >>)
       \o (CASE contentKey = "none" -> <<>>
             [] contentKey = "both" ->
                  << <<"utterance", Str("u")>>,
                     <<"content", Str(ToString(k) \o Text(len, FALSE))>> >>
             [] OTHER ->
                  << <<contentKey, Str(ToString(k) \o Text(len, FALSE))>> >>) )

KeyShapes == {"none", "both"}

ShapedTurns(field, others, maxTurns) ==
    { Dict(<< <<field, List([k \in 1..n |-> ShapedTurn(k, rk, ck, len)])>> >>
           \o others) :
        n \in 0..maxTurns,
        rk \in KeyShapes \cup {"role", "speaker_role"},
        ck \in KeyShapes \cup {"content", "utterance"},
        len \in {ContentCut - 2, ContentCut - 1, ContentCut} }

DefaultMessages == <<"messages", List(<<Turn(1)>>)>>
DefaultChosen == <<"chosen", Str("Human: hi")>>

PreviewRecords(maxTurns) ==
    UNION { ShapedTurns("conversation", others, maxTurns) :
              others \in { <<>>, <<DefaultMessages>>, <<DefaultChosen>>,
                           <<DefaultChosen, DefaultMessages>> } }
    \cup UNION { ShapedTurns("messages", others, maxTurns) :
                   others \in { <<>>, <<DefaultChosen>> } }
    \cup { Dict(<< <<"rejected", Str("r")>>, <<"chosen", Str(Text(n, TRUE))>> >>) :
             n \in CutLengths(ChosenCut) \cup {2 * ChosenCut} }
    \cup { Dict(<< <<"id", Num(7)>>, <<"tags", List(<<Str("a"), Bool(TRUE)>>)>>,
                   <<"text", Str(Text(n, q))>> >>) :
             n \in {0, 2 * StructureCut}
                   \cup (StructureCut - 70 .. StructureCut - 40),
             q \in BOOLEAN }

PreviewDatasets(maxTurns) == { List(<<r>>) : r \in PreviewRecords(maxTurns) }

\* --- directories for the inspection loop --------------------------------
GoodData ==
    List(<< Dict(<< <<"conversation", Conversation(2)>>,
                    <<"language", Str("English")>> >>),
            Dict(<< <<"language", Str("French")>> >>) >>)

FileKinds ==
    { Missing, Malformed,
      JsonFile(GoodData),
      \* a null conversation: len(None) raises TypeError
      JsonFile(List(<< Dict(<< <<"conversation", Null>> >>) >>)),
      \* a null content: None[:100] raises TypeError
      JsonFile(List(<< Dict(<< <<"messages",
                  List(<< Dict(<< <<"content", Null>> >>) >>)>> >>) >>)) }

\* the directories of at most max files
Directories(max) == UNION { [1..n -> FileKinds] : n \in 0..max }

-----------------------------------------------------------------------------
(* The inspection loop *)

\* an uncaught exception ends the script
AfterInspectErrorUncaught == "crashed"

\* `except Exception as e: print(...)`: the for-loop goes on
AfterInspectError == "loop"

InspectInit ==
    /\ jsonFiles = <<>> /\ fidx = 0 /\ reports = <<>> /\ ipc = "glob"
    /\ NormalizerIdle /\ DownloadIdle

\* json_files = sorted(datasets_dir.glob("*.json")), the directory being
\* one of dirs
Glob(dirs) ==
    /\ ipc = "glob"
    /\ jsonFiles' \in dirs
    /\ ipc' = "loop"
    /\ UNCHANGED <<fidx, reports, nvars, dvars>>

\* one iteration of `for json_file in json_files`: the report of
\* inspect_dataset, or the error line of the handler
InspectFile ==
    /\ ipc = "loop" /\ fidx < Len(jsonFiles)
    /\ fidx' = fidx + 1
    /\ LET r == inspect_dataset(jsonFiles[fidx + 1])
       IN  /\ reports' = Append(reports,
                           [line |-> IF r.err THEN "error" ELSE "report",
                            file |-> fidx + 1, printed |-> r])
           /\ ipc' = IF r.err THEN AfterInspectError ELSE "loop"
    /\ UNCHANGED <<jsonFiles, nvars, dvars>>

\* the "Inspection complete!" section below the loop
InspectComplete ==
    /\ ipc = "loop" /\ fidx = Len(jsonFiles)
    /\ reports' = Append(reports, [line |-> "complete"])
    /\ ipc' = "done"
    /\ UNCHANGED <<jsonFiles, fidx, nvars, dvars>>

SingleFile(datasets) == { <<JsonFile(d)>> : d \in datasets }

GlobLang == Glob(SingleFile(LangDatasets(MaxRecords)))
GlobConv == Glob(SingleFile(ConvDatasets(MaxConvRecords, MaxTurns)))
GlobPreview == Glob(SingleFile(PreviewDatasets(MaxTurns)))
GlobAny == Glob(Directories(MaxFiles))

LangNext == GlobLang \/ InspectFile \/ InspectComplete
ConvNext == GlobConv \/ InspectFile \/ InspectComplete
PreviewNext == GlobPreview \/ InspectFile \/ InspectComplete
LoopNext == GlobAny \/ InspectFile \/ InspectComplete

SpecLang == InspectInit /\ [][LangNext]_vars
SpecConv == InspectInit /\ [][ConvNext]_vars
SpecPreview == InspectInit /\ [][PreviewNext]_vars
SpecLoop == InspectInit /\ [][LoopNext]_vars
\* the script is one sequential process: it always takes its next step
SpecLoopFair == SpecLoop /\ WF_vars(LoopNext)

-----------------------------------------------------------------------------
(* Claims about inspect_dataset *)

\* the one dataset of a single-file run, once it has been inspected
Inspected == fidx >= 1 /\ jsonFiles[1].kind = "json"
TheData == jsonFiles[1].data.v
TheFirst == TheData[1]
ThePrinted == reports[1].printed

\* the language a record counts under: its `language` when present and truthy
Counts(rec) == Has(rec, "language") /\ Truthy(Lookup(rec, "language"))
CountOf(l) ==
    Cardinality({i \in 1..Len(TheData) :
                   Counts(TheData[i]) /\ Lookup(TheData[i], "language") = l})
FirstAt(l) ==
    CHOOSE i \in 1..Len(TheData) :
        /\ Counts(TheData[i]) /\ Lookup(TheData[i], "language") = l
        /\ \A j \in 1..(i - 1) :
             ~(Counts(TheData[j]) /\ Lookup(TheData[j], "language") = l)
Counted == {Lookup(TheData[i], "language") :
              i \in {j \in 1..Len(TheData) : Counts(TheData[j])}}
\* l comes before m in the table: more frequent, or as frequent and met first
Before(l, m) ==
    \/ CountOf(l) > CountOf(m)
    \/ CountOf(l) = CountOf(m) /\ FirstAt(l) < FirstAt(m)
\* p tenths is n / d to one decimal place
NearestTenth(p, n, d) == 2 * (p * d - 10 * n) <= d /\ 2 * (10 * n - p * d) <= d

\* C6: when the first record has a `language` field, the language of every
\* record where it is present and truthy is counted, and at most the 5 most
\* frequent values are reported in descending count order, ties in
\* first-encountered order, each with its count and its percentage of the
\* total number of records.
C6_TopLanguages ==
    (Inspected /\ Has(TheFirst, "language")) =>
        LET rows == ThePrinted.langs.rows
            shown == {rows[i].lang : i \in 1..Len(rows)}
        IN  /\ ~ThePrinted.err /\ ThePrinted.langs.present
            /\ Len(rows) = Min(TopLanguages, Cardinality(Counted))
            /\ shown \subseteq Counted /\ Cardinality(shown) = Len(rows)
            /\ \A i \in 1..Len(rows) :
                 /\ rows[i].count = CountOf(rows[i].lang)
                 /\ NearestTenth(rows[i].pct10, 100 * rows[i].count,
                                 Len(TheData))
            /\ \A i, j \in 1..Len(rows) :
                 i < j => Before(rows[i].lang, rows[j].lang)
            /\ \A l \in Counted \ shown : \A m \in shown : Before(m, l)

\* a dataset with more than five languages was tabulated
C6_Witness ==
    /\ Inspected /\ Has(TheFirst, "language")
    /\ Cardinality(Counted) > TopLanguages
    /\ Len(ThePrinted.langs.rows) = TopLanguages

\* the table of a dataset with a tie between two languages and a record
\* that has no language
C6_TieWitness ==
    /\ Inspected /\ Has(TheFirst, "language")
    /\ Len(ThePrinted.langs.rows) >= 3
    /\ ThePrinted.langs.rows[2].count = ThePrinted.langs.rows[3].count
    /\ ThePrinted.langs.rows[1].count > ThePrinted.langs.rows[2].count
    /\ \E i \in 1..Len(TheData) : ~Counts(TheData[i])

\* the conversation length a record contributes: 0 when it lacks the field
LengthOf(rec) ==
    IF Has(rec, "conversation") THEN Len(Lookup(rec, "conversation").v) ELSE 0
AllSequences ==
    \A i \in 1..Len(TheData) :
        Has(TheData[i], "conversation") =>
            Lookup(TheData[i], "conversation").t \in {"list", "str"}

IsCutOf(p, s, n) ==
    /\ Len(p) = Min(n, Len(s))
    /\ \A i \in 1..Len(p) : CharAt(p, i) = CharAt(s, i)

\* the first of the keys that the mapping has, else the default
FirstOf(d, k1, k2, default) ==
    IF Has(d, k1) THEN Lookup(d, k1)
    ELSE IF Has(d, k2) THEN Lookup(d, k2) ELSE default

\* the lines render the first n elements of the turn list under field
RendersTurns(lines, field, n, roleAlt, contentAlt) ==
    LET turns == Lookup(TheFirst, field).v
    IN  /\ Len(lines) = Min(n, Len(turns))
        /\ \A k \in 1..Len(lines) :
             /\ lines[k].label =
                    FirstOf(turns[k], "role", roleAlt, Str("unknown"))
             /\ IsCutOf(lines[k].text.v,
                        FirstOf(turns[k], "content", contentAlt, Str("")).v,
                        ContentCut)

\* C8: the example preview of the first record uses exactly one rendering,
\* by the priority conversation > messages > chosen > generic structure: at
\* most the first 3 turns (content cut to 100 characters), at most the first
\* 2 messages (content cut to 100 characters), the 150-character prefix of a
\* `chosen` string longer than 150, the 300-character prefix of the
\* serialized record when none of the three fields exists.
C8_PreviewPriority ==
    Inspected =>
        LET p == ThePrinted.preview
        IN  /\ ~ThePrinted.err
            /\ IF Has(TheFirst, "conversation")
               THEN /\ p.kind = "conversation"
                    /\ RendersTurns(p.lines, "conversation", TurnsShown,
                                    "speaker_role", "utterance")
               ELSE IF Has(TheFirst, "messages")
               THEN /\ p.kind = "messages"
                    \* a message has no alternative keys
                    /\ RendersTurns(p.lines, "messages", MessagesShown,
                                    "role", "content")
               ELSE IF Has(TheFirst, "chosen")
               THEN /\ p.kind = "chosen" /\ Len(p.lines) = 1
                    /\ IsCutOf(p.lines[1].text.v,
                               Lookup(TheFirst, "chosen").v, ChosenCut)
                    /\ Len(Lookup(TheFirst, "chosen").v) > ChosenCut
                         => Len(p.lines[1].text.v) = ChosenCut
               ELSE /\ p.kind = "structure" /\ Len(p.lines) = 1
                    /\ IsCutOf(p.lines[1].text.v, Dumps(TheFirst, 0),
                               StructureCut)

\* a record with all three fields and more than three long turns was
\* previewed by its conversation
C8_Witness ==
    /\ Inspected
    /\ Has(TheFirst, "conversation") /\ Has(TheFirst, "messages")
    /\ Has(TheFirst, "chosen")
    /\ Len(Lookup(TheFirst, "conversation").v) > TurnsShown
    /\ Len(ThePrinted.preview.lines) = TurnsShown
    /\ Len(ThePrinted.preview.lines[1].text.v) = ContentCut
    /\ Has(Lookup(TheFirst, "conversation").v[1], "content")
    /\ Len(Lookup(Lookup(TheFirst, "conversation").v[1], "content").v)
         > ContentCut

\* a `chosen` string longer than 150 was cut to 150
C8_ChosenWitness ==
    /\ Inspected /\ ThePrinted.preview.kind = "chosen"
    /\ Len(Lookup(TheFirst, "chosen").v) > ChosenCut
    /\ Len(ThePrinted.preview.lines[1].text.v) = ChosenCut

\* a serialized record longer than 300 was cut to 300
C8_StructureWitness ==
    /\ Inspected /\ ThePrinted.preview.kind = "structure"
    /\ Len(Dumps(TheFirst, 0)) > StructureCut
    /\ Len(ThePrinted.preview.lines[1].text.v) = StructureCut

\* C9: a failure while inspecting one file (missing or malformed JSON, an
\* absent or wrongly shaped expected field) is reported as one error line
\* for that file, every remaining file is still inspected, and the run ends
\* by printing the completion section.
C9_InspectionIsolated ==
    /\ [](\A i \in 1..fidx :
            /\ reports[i].file = i
            /\ jsonFiles[i].kind \in {"missing", "malformed"}
                 => reports[i].line = "error"
            /\ reports[i].line = "error" <=> reports[i].printed.err)
    /\ <>(/\ ipc = "done" /\ fidx = Len(jsonFiles)
          /\ Len(reports) = Len(jsonFiles) + 1
          /\ reports[Len(reports)].line = "complete")

\* a missing file, then a wrongly shaped one, then a good one, then the end
C9_Witness ==
    /\ ipc = "done" /\ Len(jsonFiles) = 3
    /\ jsonFiles[1] = Missing /\ reports[1].line = "error"
    /\ reports[2].line = "error" /\ reports[2].printed.stage = "statistics"
    /\ reports[3].line = "report" /\ reports[3].printed.total = 2
    /\ reports[4].line = "complete"

=============================================================================
